---- MODULE Spec2Model ----
(***************************************************************************)
(* Model of the azure-ai-proxy interception pipeline:                      *)
(*   Server.ServeHTTP -> ReverseProxy (Director) -> loggingTransport       *)
(*   .RoundTrip -> FileLogger.LogRequest -> response back to the client.   *)
(* NumReq requests are served concurrently, one goroutine per request;     *)
(* the only state they share is the log file of the FileLogger.            *)
(*                                                                         *)
(* Bytes are modelled as sequences of tokens: "\n" is a line feed,         *)
(* "data: " the SSE prefix, "[DONE]" the SSE sentinel, the tokens of       *)
(* JSONToks are complete JSON values and "text" is any other text.         *)
(***************************************************************************)
EXTENDS Naturals, Sequences, FiniteSets, TLC

\* ------------------------------------------------------------------ bounds
NumReq == 2

\* Most lines of a response body given to a function applied on its own.
MaxLines == 3

Ids == 1..NumReq

\* ------------------------------------------------------------ input values
\* Values of the X-API-Key request header; "" is what Header.Get returns for
\* a missing header.
ClientKeys == {"", "secret", "wrong"}

\* Values of the configured PROXY_API_KEY; "" disables authentication.
ConfigKeys == {"", "secret"}

targetHost == "upstream.example"

\* Complete JSON values.  "[1]" is valid JSON but no object; the others are
\* objects: "{obj}" has no choices field, "{c1:x,c2:y}" has two choices.
JSONToks == {"{obj}", "{delta:Hel}", "{delta:lo}", "{message:!}",
             "{delta:a,message:b}", "{delta:7,message:b}", "{delta:7}",
             "{choices:[]}", "{c1:x,c2:y}", "[1]", "{id:1,delta:ok,finish:stop}"}

BodyJSON == <<"{obj}">>
BodyText == <<"text">>
BodyStream == <<"data: ", "{delta:Hel}", "\n", "data: ", "{delta:lo}", "\n",
                "data: ", "[DONE]", "\n">>

\* An inbound request as the client sent it.
Request(key, body) ==
  [key |-> key, body |-> body, path |-> <<"chat">>, query |-> <<"v=1">>,
   method |-> "POST", host |-> "proxy.local", connection |-> "",
   xff |-> <<>>, remote |-> "10.0.0.1"]

\* The inbound requests: every key value; an empty, a non-JSON and a JSON
\* body; two paths and two methods.
Requests ==
  { Request("", <<>>),
    [Request("wrong", BodyText) EXCEPT !.path = <<"embeddings">>, !.method = "PUT"],
    Request("secret", BodyJSON) }

NoHeaders == [apim |-> "", xms |-> "", xmscorr |-> ""]

\* What the upstream may answer: any status, any of the three body shapes.
UpstreamResponses ==
  { [status |-> 200, header |-> [apim |-> "a1", xms |-> "m1", xmscorr |-> ""],
     body |-> BodyJSON],
    [status |-> 200, header |-> [apim |-> "", xms |-> "", xmscorr |-> "c1"],
     body |-> BodyStream],
    [status |-> 500, header |-> NoHeaders, body |-> BodyText] }

\* Errors of the underlying transport (DNS failure, refused, timeout).
TransportErrors == {"dial tcp: connection refused"}

VARIABLES
  apiKey,        \* Server.apiKey
  fileOpen,      \* FileLogger.file is open (not yet closed)
  logFile,       \* the bytes of the log destination, each tagged with its writer
  pc,            \* position of each request's goroutine
  req,           \* the inbound request, <<>> before it arrives
  rBody,         \* r.Body: the bytes still unread on the inbound body stream
  ctx,           \* the context values attached by ServeHTTP, <<>> if none
  upstreamCalls, \* the requests the underlying transport sent to the upstream
  transportRet,  \* what the underlying transport returned: <<[resp, err]>>
  entry,         \* the logging.Entry handed to LogRequest, <<>> if none
  pending,       \* the Write calls LogRequest still has to make
  logErr,        \* "none" before LogRequest returns, then "ok" or "err"
  rtRet,         \* what loggingTransport.RoundTrip returned: <<[resp, err]>>
  client,        \* the responses delivered to the client
  events,        \* the order of the events of each request
  closeRet,      \* what the last l.file.Close() returned: "none", "ok" or "err"
  fnIn,          \* the input of a function applied on its own
  fnOut          \* its result, <<>> before it is applied

vars == <<apiKey, fileOpen, logFile, pc, req, rBody, ctx, upstreamCalls,
          transportRet, entry, pending, logErr, rtRet, client, events,
          closeRet, fnIn, fnOut>>

\* --------------------------------------------------------- pure functions

\* strings.Split(text, "\n")
RECURSIVE SplitLines(_)
SplitLines(text) ==
  IF \A i \in 1..Len(text) : text[i] # "\n"
    THEN <<text>>
    ELSE LET k == CHOOSE i \in 1..Len(text) :
                    /\ text[i] = "\n"
                    /\ \A j \in 1..(i-1) : text[j] # "\n"
         IN <<SubSeq(text, 1, k-1)>> \o SplitLines(SubSeq(text, k+1, Len(text)))

\* JSON whitespace is skipped by the decoder.
StripSpace(b) == SelectSeq(b, LAMBDA t : t # "\n")

\* json.Unmarshal(bytes, &v) succeeds: exactly one JSON value, nothing else.
JSONValid(b) == Len(StripSpace(b)) = 1 /\ StripSpace(b)[1] \in JSONToks

\* strings.Contains(s, "data: ")
ContainsData(b) == \E i \in 1..Len(b) : b[i] = "data: "

\* strings.HasPrefix(line, "data: ")
HasDataPrefix(line) == Len(line) > 0 /\ line[1] = "data: "

\* A decoded content field: a string or some other JSON value.
Str(v) == [isStr |-> TRUE, v |-> v]
NotStr(v) == [isStr |-> FALSE, v |-> v]

\* A decoded choice: delta and message are <<>> when the field is absent or
\* no object with a content field, else <<content>>.
Choice(d, m) == [delta |-> d, message |-> m]

\* json.Unmarshal of a JSON value: whether it is an object, and its choices
\* array (<<>> when absent or empty).
Decode(tok) ==
  CASE tok = "{delta:Hel}" ->
         [isObject |-> TRUE, choices |-> <<Choice(<<Str("Hel")>>, <<>>)>>]
    [] tok = "{delta:lo}" ->
         [isObject |-> TRUE, choices |-> <<Choice(<<Str("lo")>>, <<>>)>>]
    [] tok = "{message:!}" ->
         [isObject |-> TRUE, choices |-> <<Choice(<<>>, <<Str("!")>>)>>]
    [] tok = "{delta:a,message:b}" ->
         [isObject |-> TRUE, choices |-> <<Choice(<<Str("a")>>, <<Str("b")>>)>>]
    [] tok = "{delta:7,message:b}" ->
         [isObject |-> TRUE, choices |-> <<Choice(<<NotStr("7")>>, <<Str("b")>>)>>]
    [] tok = "{delta:7}" ->
         [isObject |-> TRUE, choices |-> <<Choice(<<NotStr("7")>>, <<>>)>>]
    [] tok = "{c1:x,c2:y}" ->
         [isObject |-> TRUE, choices |-> <<Choice(<<Str("x")>>, <<>>),
                                           Choice(<<Str("y")>>, <<>>)>>]
    [] tok = "{id:1,delta:ok,finish:stop}" ->
         [isObject |-> TRUE, choices |-> <<Choice(<<Str("ok")>>, <<>>)>>]
    [] tok = "[1]" -> [isObject |-> FALSE, choices |-> <<>>]
    [] OTHER -> [isObject |-> TRUE, choices |-> <<>>]

\* content, ok := field["content"].(string)
ContentString(field) ==
  IF field # <<>> /\ field[1].isStr THEN <<field[1].v>> ELSE <<>>

RECURSIVE AllChoicesContent(_)
AllChoicesContent(choices) ==
  IF choices = <<>> THEN <<>>
  ELSE ContentString(Head(choices).delta) \o ContentString(Head(choices).message)
         \o AllChoicesContent(Tail(choices))

ChunkContentAllChoices(tok) == AllChoicesContent(Decode(tok).choices)

\* The content strings a parsed chunk adds: choices[0].delta.content, then
\* choices[0].message.content.
ChunkContent(tok) ==
  LET choices == Decode(tok).choices
  IN IF Len(choices) > 0
       THEN ContentString(choices[1].delta) \o ContentString(choices[1].message)
       ELSE <<>>

\* json.Unmarshal([]byte(data), &chunk) with chunk a map: a JSON object.
ChunkValid(data) == JSONValid(data) /\ Decode(StripSpace(data)[1]).isObject

\* One iteration of the loop of processStreamingResponse.
LineContent(line) ==
  IF ~HasDataPrefix(line) THEN <<>>
  ELSE LET data == Tail(line)
       IN IF data = <<"[DONE]">> THEN <<>>
          ELSE IF ~ChunkValid(data) THEN <<>>
          ELSE ChunkContent(StripSpace(data)[1])

RECURSIVE FullContentAbort(_)
FullContentAbort(lines) ==
  IF lines = <<>> THEN <<>>
  ELSE IF HasDataPrefix(Head(lines))
          /\ (Tail(Head(lines)) = <<"[DONE]">> \/ ~ChunkValid(Tail(Head(lines))))
    THEN <<>>
  ELSE LineContent(Head(lines)) \o FullContentAbort(Tail(lines))

RECURSIVE FullContent(_)
FullContent(lines) ==
  IF lines = <<>> THEN <<>>
  ELSE LineContent(Head(lines)) \o FullContent(Tail(lines))

CompletionWithChunkFields(fullContent) ==
  [id |-> "1",
   choices |-> <<[message |-> [role |-> "assistant", content |-> fullContent],
                  finish_reason |-> "stop"]>>]

\* The map processStreamingResponse returns: one choice with one message.
Completion(fullContent) ==
  [choices |-> <<[message |-> [role |-> "assistant", content |-> fullContent]]>>]

\* A logged payload: kind "json" (parsed value), "stream" (reconstructed chat
\* completion whose message content is val; object is the map itself) or
\* "text" (raw bytes).
processStreamingResponse(responseText) ==
  [kind |-> "stream", role |-> "assistant",
   val |-> FullContent(SplitLines(responseText)),
   object |-> Completion(FullContent(SplitLines(responseText)))]

RequestPayloadNil(bodyBytes) ==
  IF JSONValid(bodyBytes)
    THEN [kind |-> "json", role |-> "", val |-> StripSpace(bodyBytes)]
    ELSE [kind |-> "nil", role |-> "", val |-> <<>>]

\* ServeHTTP: json.Unmarshal(bodyBytes, &requestBody), raw text on failure.
RequestPayload(bodyBytes) ==
  IF JSONValid(bodyBytes)
    THEN [kind |-> "json", role |-> "", val |-> StripSpace(bodyBytes)]
    ELSE [kind |-> "text", role |-> "", val |-> bodyBytes]

\* RoundTrip: the response payload that is logged.
ResponsePayload(bodyBytes) ==
  IF JSONValid(bodyBytes)
    THEN [kind |-> "json", role |-> "", val |-> StripSpace(bodyBytes)]
  ELSE IF ContainsData(bodyBytes)
    THEN processStreamingResponse(bodyBytes)
  ELSE [kind |-> "text", role |-> "", val |-> bodyBytes]

CorrelationIDReversed(h) ==
  IF h.xmscorr # "" THEN h.xmscorr
  ELSE IF h.xms # "" THEN h.xms
  ELSE h.apim

\* RoundTrip: the correlation id, first non-empty header in priority order.
CorrelationID(h) ==
  IF h.apim # "" THEN h.apim
  ELSE IF h.xms # "" THEN h.xms
  ELSE h.xmscorr


\* ----------------------------------------------------------- Gatekeeper

AuthorizedIfMissing(cfgKey, clientKey) ==
  cfgKey = "" \/ clientKey = cfgKey \/ clientKey = ""

AuthorizedStrict(cfgKey, clientKey) == clientKey = cfgKey

\* ServeHTTP: the API key check.
Authorized(cfgKey, clientKey) == cfgKey = "" \/ clientKey = cfgKey

\* io.ReadAll: returns every byte of the stream and leaves it drained.
ReadAll(stream) == [data |-> stream, rest |-> <<>>]

ReinstallBodyDrained(bodyBytes, rest) == rest

\* ServeHTTP: r.Body = io.NopCloser(bytes.NewBuffer(bodyBytes)); `rest` is
\* what the drained original stream would still deliver.
ReinstallBody(bodyBytes, rest) == bodyBytes

\* ServeHTTP: the four context values.
CallContext(r, bodyBytes) ==
  [requestBody |-> RequestPayload(bodyBytes), path |-> r.path,
   method |-> r.method, startTime |-> "now"]

ContextKeys == {"requestBody", "path", "method", "startTime"}

\* req.Context().Value(requestBodyKey), taken without a type assertion: nil
\* for a context that lacks the value; json encodes nil as null.
RequestBodyValue(c) ==
  IF "requestBody" \in DOMAIN c THEN c.requestBody
  ELSE [kind |-> "nil", role |-> "", val |-> <<>>]

\* The type assertions .(string), .(string), .(time.Time) on the path, method
\* and start time values succeed; on a nil value they panic.
TypeAssertionsHold(c) == {"path", "method", "startTime"} \subseteq DOMAIN c

\* http.Error(w, msg, code)
HTTPError(code, msg) == [status |-> code, header |-> NoHeaders, body |-> <<msg>>]

\* No function is applied on its own while the server runs.
NoInput == [fn |-> "none", arg |-> <<>>]

\* The server right after main.run has built it: the log file is open, no
\* request has arrived.
InitServer ==
  /\ fileOpen = TRUE
  /\ closeRet = "none"
  /\ logFile = <<>>
  /\ pc = [i \in Ids |-> "idle"]
  /\ req = [i \in Ids |-> <<>>]
  /\ rBody = [i \in Ids |-> <<>>]
  /\ ctx = [i \in Ids |-> <<>>]
  /\ upstreamCalls = [i \in Ids |-> <<>>]
  /\ transportRet = [i \in Ids |-> <<>>]
  /\ entry = [i \in Ids |-> <<>>]
  /\ pending = [i \in Ids |-> <<>>]
  /\ logErr = [i \in Ids |-> "none"]
  /\ rtRet = [i \in Ids |-> <<>>]
  /\ client = [i \in Ids |-> <<>>]
  /\ events = [i \in Ids |-> <<>>]

Init ==
  /\ apiKey \in ConfigKeys
  /\ InitServer
  /\ fnIn = NoInput
  /\ fnOut = <<>>

ServeHTTPIgnoreReadError(id) ==
  /\ pc[id] = "idle"
  /\ \E r \in Requests, readErr \in BOOLEAN :
       /\ req' = [req EXCEPT ![id] = <<r>>]
       /\ IF ~Authorized(apiKey, r.key)
            THEN /\ client' = [client EXCEPT ![id] =
                                 Append(@, HTTPError(401, "Unauthorized"))]
                 /\ pc' = [pc EXCEPT ![id] = "done"]
                 /\ events' = [events EXCEPT ![id] = Append(@, "unauthorized")]
                 /\ UNCHANGED <<rBody, ctx>>
          ELSE LET rd == ReadAll(r.body)
               IN /\ rBody' = [rBody EXCEPT ![id] = ReinstallBody(rd.data, rd.rest)]
                  /\ ctx' = [ctx EXCEPT ![id] = <<CallContext(r, rd.data)>>]
                  /\ pc' = [pc EXCEPT ![id] = "proxy"]
                  /\ events' = [events EXCEPT ![id] =
                                  Append(@, IF readErr THEN "readError" ELSE "bodyCaptured")]
                  /\ UNCHANGED client
  /\ UNCHANGED <<fnIn, fnOut, closeRet, apiKey, fileOpen, logFile, upstreamCalls, transportRet, entry,
                 pending, logErr, rtRet>>

\* Server.ServeHTTP up to the call of s.proxy.ServeHTTP.  The request and
\* whether reading its body fails are inputs.
ServeHTTP(id) ==
  /\ pc[id] = "idle"
  /\ \E r \in Requests, readErr \in BOOLEAN :
       /\ req' = [req EXCEPT ![id] = <<r>>]
       /\ IF ~Authorized(apiKey, r.key)
            THEN /\ client' = [client EXCEPT ![id] =
                                 Append(@, HTTPError(401, "Unauthorized"))]
                 /\ pc' = [pc EXCEPT ![id] = "done"]
                 /\ events' = [events EXCEPT ![id] = Append(@, "unauthorized")]
                 /\ UNCHANGED <<rBody, ctx>>
          ELSE IF readErr
            THEN /\ client' = [client EXCEPT ![id] =
                                 Append(@, HTTPError(500, "Error reading request body"))]
                 /\ pc' = [pc EXCEPT ![id] = "done"]
                 /\ events' = [events EXCEPT ![id] = Append(@, "readError")]
                 /\ UNCHANGED <<rBody, ctx>>
          ELSE LET rd == ReadAll(r.body)
               IN /\ rBody' = [rBody EXCEPT ![id] = ReinstallBody(rd.data, rd.rest)]
                  /\ ctx' = [ctx EXCEPT ![id] = <<CallContext(r, rd.data)>>]
                  /\ pc' = [pc EXCEPT ![id] = "proxy"]
                  /\ events' = [events EXCEPT ![id] = Append(@, "bodyCaptured")]
                  /\ UNCHANGED client
  /\ UNCHANGED <<fnIn, fnOut, closeRet, apiKey, fileOpen, logFile, upstreamCalls, transportRet, entry,
                 pending, logErr, rtRet>>

\* ------------------------------------------------------ Forwarding engine

\* Server.targetURL as main.run parsed it from TARGET_URL.
targetURL == [scheme |-> "https", host |-> targetHost, path |-> <<>>, query |-> <<>>]

\* The director of httputil.NewSingleHostReverseProxy(target): scheme and
\* host of the URL are the target's, the path is the target's path joined
\* with the request's, the query the target's followed by the request's.
originalDirector(target, r) ==
  [scheme |-> target.scheme, host |-> target.host, hostHeader |-> r.host,
   path |-> target.path \o r.path, query |-> target.query \o r.query,
   method |-> r.method, key |-> r.key, connection |-> r.connection,
   xff |-> r.xff]

DirectorNoHostOverride(target, r) == originalDirector(target, r)

\* proxy.Director as New overrides it: originalDirector(req), then
\* req.Host = targetURL.Host.
Director(target, r) ==
  [originalDirector(target, r) EXCEPT !.hostHeader = target.host]

\* ReverseProxy.ServeHTTP up to the transport: the outbound request is the
\* inbound one after the Director, without its hop-by-hop headers, with the
\* client's address appended to X-Forwarded-For, and with the inbound body.
OutboundRequest(target, r, body) ==
  [Director(target, r) EXCEPT !.connection = "", !.xff = r.xff \o <<r.remote>>]
    @@ [body |-> body]

ForwardSharedContext(id) ==
  /\ pc[id] = "proxy"
  /\ ctx[id] # <<>>
  /\ IF TypeAssertionsHold(ctx[id][1])
       THEN /\ upstreamCalls' = [upstreamCalls EXCEPT ![id] =
                  Append(@, OutboundRequest(targetURL, req[id][1], rBody[id]))]
            /\ rBody' = [rBody EXCEPT ![id] = <<>>]
            /\ events' = [events EXCEPT ![id] = @ \o <<"contextRead", "upstreamCall">>]
            /\ pc' = [pc EXCEPT ![id] = "upstream"]
       ELSE /\ events' = [events EXCEPT ![id] = @ \o <<"contextRead", "panic">>]
            /\ pc' = [pc EXCEPT ![id] = "done"]
            /\ UNCHANGED <<upstreamCalls, rBody>>
  /\ ctx' = [i \in Ids |-> ctx[id]]
  /\ UNCHANGED <<fnIn, fnOut, closeRet, apiKey, fileOpen, logFile, req, transportRet, entry,
                 pending, logErr, rtRet, client>>

\* ReverseProxy.ServeHTTP: Director, then loggingTransport.RoundTrip up to the
\* call of the underlying transport, which sends the request upstream.  The
\* first thing RoundTrip does is read the four context values.
Forward(id) ==
  /\ pc[id] = "proxy"
  /\ ctx[id] # <<>>
  /\ IF TypeAssertionsHold(ctx[id][1])
       THEN /\ upstreamCalls' = [upstreamCalls EXCEPT ![id] =
                  Append(@, OutboundRequest(targetURL, req[id][1], rBody[id]))]
            /\ rBody' = [rBody EXCEPT ![id] = <<>>]
            /\ events' = [events EXCEPT ![id] = @ \o <<"contextRead", "upstreamCall">>]
            /\ pc' = [pc EXCEPT ![id] = "upstream"]
       ELSE /\ events' = [events EXCEPT ![id] = @ \o <<"contextRead", "panic">>]
            /\ pc' = [pc EXCEPT ![id] = "done"]
            /\ UNCHANGED <<upstreamCalls, rBody>>
  /\ UNCHANGED <<fnIn, fnOut, closeRet, apiKey, fileOpen, logFile, req, ctx, transportRet, entry,
                 pending, logErr, rtRet, client>>

\* -------------------------------------------------- Interception transport

EntryOfOtherExchange(c, r) ==
  [RequestBody |-> RequestBodyValue(c), Response |-> ResponsePayload(r.body),
   Path |-> <<"chat">>, Method |-> "POST", CorrelationID |-> CorrelationID(r.header)]

\* logging.Entry built by RoundTrip.
Entry(c, r) ==
  [RequestBody |-> RequestBodyValue(c), Response |-> ResponsePayload(r.body),
   Path |-> c.path, Method |-> c.method, CorrelationID |-> CorrelationID(r.header)]

\* json.Encoder.Encode: the bytes of one record, tagged with the writer.
Encode(id, e) == <<[w |-> id, e |-> e, part |-> "json"],
                   [w |-> id, e |-> e, part |-> "\n"]>>

EncodeWritesSplit(id, e) == <<<<Encode(id, e)[1]>>, <<Encode(id, e)[2]>>>>

\* The Write calls one Encode makes on the file: a single one, with the
\* whole record.
EncodeWrites(id, e) == <<Encode(id, e)>>

OnTransportErrorWrapped(err) == [resp |-> <<>>, err |-> "proxy: upstream unreachable"]

\* RoundTrip when the underlying transport failed: return nil, err
OnTransportError(err) == [resp |-> <<>>, err |-> err]

\* RoundTrip when reading the response body failed: return nil, err
OnReadError(r) == [resp |-> <<>>, err |-> "read error"]

RoundTripResultPropagate(r, lerr) ==
  IF lerr = "err" THEN [resp |-> <<>>, err |-> "log write failed"]
  ELSE [resp |-> <<[r EXCEPT !.body = ReadAll(r.body).data]>>, err |-> ""]

\* RoundTrip's result after LogRequest returned lerr ("ok" or "err"):
\* resp.Body = io.NopCloser(bytes.NewBuffer(bodyBytes)); return resp, nil
RoundTripResult(r, lerr) ==
  [resp |-> <<[r EXCEPT !.body = ReadAll(r.body).data]>>, err |-> ""]

\* The errors t.transport.RoundTrip(req) may return: those of the network,
\* and, once the context of the request is cancelled (the inbound request's
\* context is its parent, and the server cancels it when the client's
\* connection closes), the context error.
TransportOutcomeErrors(id) ==
  TransportErrors \cup
    (IF \E k \in 1..Len(events[id]) : events[id][k] = "clientGone"
       THEN {"context canceled"} ELSE {})

RoundTripRetry(id) ==
  /\ pc[id] = "upstream"
  /\ \/ \E e \in TransportOutcomeErrors(id) :
          /\ transportRet' = [transportRet EXCEPT ![id] = <<[resp |-> <<>>, err |-> e]>>]
          /\ events' = [events EXCEPT ![id] = Append(@, "transportError")]
          /\ pc' = [pc EXCEPT ![id] = "proxy"]
          /\ UNCHANGED <<rtRet, entry, pending>>
     \/ \E r \in UpstreamResponses, readErr \in BOOLEAN :
          /\ transportRet' = [transportRet EXCEPT ![id] = <<[resp |-> <<r>>, err |-> ""]>>]
          /\ IF readErr
               THEN /\ rtRet' = [rtRet EXCEPT ![id] = <<OnReadError(r)>>]
                    /\ events' = [events EXCEPT ![id] = Append(@, "respReadError")]
                    /\ pc' = [pc EXCEPT ![id] = "return"]
                    /\ UNCHANGED <<entry, pending>>
               ELSE LET e == Entry(ctx[id][1], r)
                    IN /\ entry' = [entry EXCEPT ![id] = Append(@, e)]
                       /\ pending' = [pending EXCEPT ![id] = EncodeWrites(id, e)]
                       /\ events' = [events EXCEPT ![id] = Append(@, "respRead")]
                       /\ pc' = [pc EXCEPT ![id] = "write"]
                       /\ UNCHANGED rtRet
  /\ UNCHANGED <<fnIn, fnOut, closeRet, apiKey, fileOpen, logFile, req, rBody, ctx, upstreamCalls,
                 logErr, client>>

\* loggingTransport.RoundTrip from the return of the underlying transport to
\* the call of LogRequest (which has encoded the entry and is about to write).
\* The context values it uses are the locals read before the call; the
\* context never changes, so they are those of ctx[id].
RoundTrip(id) ==
  /\ pc[id] = "upstream"
  /\ \/ \E e \in TransportOutcomeErrors(id) :
          /\ transportRet' = [transportRet EXCEPT ![id] = <<[resp |-> <<>>, err |-> e]>>]
          /\ rtRet' = [rtRet EXCEPT ![id] = <<OnTransportError(e)>>]
          /\ events' = [events EXCEPT ![id] = Append(@, "transportError")]
          /\ pc' = [pc EXCEPT ![id] = "return"]
          /\ UNCHANGED <<entry, pending>>
     \/ \E r \in UpstreamResponses, readErr \in BOOLEAN :
          /\ transportRet' = [transportRet EXCEPT ![id] = <<[resp |-> <<r>>, err |-> ""]>>]
          /\ IF readErr
               THEN /\ rtRet' = [rtRet EXCEPT ![id] = <<OnReadError(r)>>]
                    /\ events' = [events EXCEPT ![id] = Append(@, "respReadError")]
                    /\ pc' = [pc EXCEPT ![id] = "return"]
                    /\ UNCHANGED <<entry, pending>>
               ELSE LET e == Entry(ctx[id][1], r)
                    IN /\ entry' = [entry EXCEPT ![id] = Append(@, e)]
                       /\ pending' = [pending EXCEPT ![id] = EncodeWrites(id, e)]
                       /\ events' = [events EXCEPT ![id] = Append(@, "respRead")]
                       /\ pc' = [pc EXCEPT ![id] = "write"]
                       /\ UNCHANGED rtRet
  /\ UNCHANGED <<fnIn, fnOut, closeRet, apiKey, fileOpen, logFile, req, rBody, ctx, upstreamCalls,
                 logErr, client>>

\* ---------------------------------------------------------------- Log sink

\* FileLogger.LogRequest: one Write call of enc.Encode on the O_APPEND file,
\* then (after the last one, or after a failed one) the return to RoundTrip,
\* which returns the response.  A Write on a closed file fails; a Write on an
\* open file may fail (destination unwritable) and then appends nothing.
LogRequest(id) ==
  /\ pc[id] = "write"
  /\ pending[id] # <<>>
  /\ \E ok \in BOOLEAN :
       /\ ok => fileOpen
       /\ LET rest == IF ok THEN Tail(pending[id]) ELSE <<>>
              lerr == IF ok THEN "ok" ELSE "err"
          IN /\ logFile' = IF ok THEN logFile \o Head(pending[id]) ELSE logFile
             /\ pending' = [pending EXCEPT ![id] = rest]
             /\ IF rest = <<>>
                  THEN /\ logErr' = [logErr EXCEPT ![id] = lerr]
                       /\ rtRet' = [rtRet EXCEPT ![id] =
                            <<RoundTripResult(transportRet[id][1].resp[1], lerr)>>]
                       /\ events' = [events EXCEPT ![id] = Append(@, "emit")]
                       /\ pc' = [pc EXCEPT ![id] = "return"]
                  ELSE UNCHANGED <<logErr, rtRet, events, pc>>
  /\ UNCHANGED <<fnIn, fnOut, closeRet, apiKey, fileOpen, req, rBody, ctx, upstreamCalls, transportRet,
                 entry, client>>

OpenFileTruncate(contents) == <<>>

\* os.OpenFile(filename, O_APPEND|O_CREATE|O_WRONLY): the file keeps what
\* it holds.
OpenFile(contents) == contents

\* NewFileLogger in a new run of the process on the same LOG_FILE_PATH, once
\* the previous run has closed its logger and serves no request any more.
NewFileLogger ==
  /\ ~fileOpen
  /\ \A id \in Ids : pc[id] \in {"idle", "done"}
  /\ fileOpen' = TRUE
  /\ logFile' = OpenFile(logFile)
  /\ closeRet' = "none"
  /\ UNCHANGED <<fnIn, fnOut, apiKey, pc, req, rBody, ctx, upstreamCalls,
                 transportRet, entry, pending, logErr, rtRet, client, events>>

\* l.file.Close(): closing a file that is already closed returns an error.
FileClose(open) == IF open THEN "ok" ELSE "err"

\* FileLogger.Close: l.file is never nil after construction, so every call
\* closes the file; an error is only logged.
Close ==
  /\ fileOpen' = FALSE
  /\ closeRet' = FileClose(fileOpen)
  /\ UNCHANGED <<fnIn, fnOut, apiKey, logFile, pc, req, rBody, ctx, upstreamCalls,
                 transportRet, entry, pending, logErr, rtRet, client, events>>

\* main.run returns: the deferred logger.Close() runs, once per run of the
\* process; requests still being served go on.
Shutdown == fileOpen /\ Close

\* ---------------------------------------------------- Response to client

\* ReverseProxy with RoundTrip's result: an error goes to the default error
\* handler (502 Bad Gateway), a response is copied to the client.
ProxyResponse(ret) ==
  IF ret.err # "" THEN [status |-> 502, header |-> NoHeaders, body |-> <<>>]
  ELSE ret.resp[1]

DeliverBeforeEmit(id) ==
  /\ pc[id] \in {"return", "write"}
  /\ LET ret == IF pc[id] = "write"
                  THEN RoundTripResult(transportRet[id][1].resp[1], "ok")
                  ELSE rtRet[id][1]
     IN /\ client' = [client EXCEPT ![id] = Append(@, ProxyResponse(ret))]
        /\ rtRet' = [rtRet EXCEPT ![id] = <<ret>>]
        /\ events' = [events EXCEPT ![id] =
                        Append(@, IF ret.err # "" THEN "badGateway" ELSE "release")]
  /\ pc' = [pc EXCEPT ![id] = "done"]
  /\ UNCHANGED <<fnIn, fnOut, closeRet, apiKey, fileOpen, logFile, req, rBody, ctx, upstreamCalls,
                 transportRet, entry, pending, logErr>>

Deliver(id) ==
  /\ pc[id] = "return"
  /\ client' = [client EXCEPT ![id] = Append(@, ProxyResponse(rtRet[id][1]))]
  /\ events' = [events EXCEPT ![id] =
                  Append(@, IF rtRet[id][1].err # "" THEN "badGateway" ELSE "release")]
  /\ pc' = [pc EXCEPT ![id] = "done"]
  /\ UNCHANGED <<fnIn, fnOut, closeRet, apiKey, fileOpen, logFile, req, rBody, ctx, upstreamCalls,
                 transportRet, entry, pending, logErr, rtRet>>

Next ==
  \/ \E id \in Ids : ServeHTTP(id)
  \/ \E id \in Ids : Forward(id)
  \/ \E id \in Ids : RoundTrip(id)
  \/ \E id \in Ids : LogRequest(id)
  \/ \E id \in Ids : Deliver(id)
  \/ Shutdown
  \/ NewFileLogger

Spec == Init /\ [][Next]_vars

\* The server together with an owner of the logger that calls Close any
\* number of times.
NextSink == Next \/ Close

SpecSink == Init /\ [][NextSink]_vars


\* ------------------------------------- the transport without the gatekeeper

\* The sets of context values a caller other than ServeHTTP may leave out:
\* each one alone, and all of them.
MissingKeys == { {k} : k \in ContextKeys } \cup {ContextKeys}

\* The call context without the values of the keys in `missing`.
ContextWithout(c, missing) == [k \in ContextKeys \ missing |-> c[k]]

\* A request handed to the forwarding engine by a handler that does not
\* attach every context value: RoundTrip is invoked with a partial context.
Bypass(id) ==
  /\ pc[id] = "idle"
  /\ \E missing \in MissingKeys :
       LET r == Request("secret", BodyJSON)
       IN /\ req' = [req EXCEPT ![id] = <<r>>]
          /\ rBody' = [rBody EXCEPT ![id] = r.body]
          /\ ctx' = [ctx EXCEPT ![id] =
                       <<ContextWithout(CallContext(r, r.body), missing)>>]
          /\ events' = [events EXCEPT ![id] = Append(@, "bypass")]
          /\ pc' = [pc EXCEPT ![id] = "proxy"]
  /\ UNCHANGED <<fnIn, fnOut, closeRet, apiKey, fileOpen, logFile, upstreamCalls,
                 transportRet, entry, pending, logErr, rtRet, client>>

NextBypass == Next \/ \E id \in Ids : Bypass(id)

SpecBypass == Init /\ [][NextBypass]_vars

\* ------------------------------------------------- the client goes away

\* The client closes its connection while its request is being proxied: the
\* server cancels r.Context(), from which ServeHTTP derived the context of
\* the forwarded request.
Disconnect(id) ==
  /\ pc[id] = "upstream"
  /\ \A k \in 1..Len(events[id]) : events[id][k] # "clientGone"
  /\ events' = [events EXCEPT ![id] = Append(@, "clientGone")]
  /\ UNCHANGED <<fnIn, fnOut, closeRet, apiKey, fileOpen, logFile, pc, req, rBody,
                 ctx, upstreamCalls, transportRet, entry, pending, logErr, rtRet,
                 client>>

NextDisconnect == Next \/ \E id \in Ids : Disconnect(id)

SpecDisconnect == Init /\ [][NextDisconnect]_vars

\* ------------------------------------------ functions applied on their own

\* Lines of an upstream response body: event-stream lines with every kind of
\* chunk, the sentinel, a malformed chunk, and lines without the prefix
\* (text, an empty line, "data: " inside the line, a bare JSON value).
LineSamples ==
  { <<"data: ", "{delta:Hel}">>, <<"data: ", "{delta:lo}">>,
    <<"data: ", "{message:!}">>, <<"data: ", "{delta:a,message:b}">>,
    <<"data: ", "{delta:7,message:b}">>, <<"data: ", "{choices:[]}">>,
    <<"data: ", "{c1:x,c2:y}">>, <<"data: ", "{obj}">>, <<"data: ", "[1]">>,
    <<"data: ", "{id:1,delta:ok,finish:stop}">>,
    <<"data: ", "[DONE]">>, <<"data: ", "text">>,
    <<"text">>, <<>>, <<"text", "data: ", "{delta:Hel}">>, <<"{obj}">> }

\* Response bodies as lists of at most MaxLines lines.
LineLists == UNION { [1..k -> LineSamples] : k \in 0..MaxLines }

\* The bytes of a body: its lines separated by line feeds.
RECURSIVE Join(_)
Join(lines) ==
  IF lines = <<>> THEN <<>>
  ELSE IF Len(lines) = 1 THEN lines[1]
  ELSE lines[1] \o <<"\n">> \o Join(Tail(lines))

\* Every combination of the three correlation headers of a response.
HeaderSets == [apim : {"", "a1"}, xms : {"", "m1"}, xmscorr : {"", "c1"}]

\* Upstream targets: a bare scheme and host, one with a base path, one with
\* a query of its own.
TargetURLs ==
  { targetURL, [targetURL EXCEPT !.path = <<"openai">>],
    [targetURL EXCEPT !.query = <<"k=1">>] }

\* Inbound requests with and without a query, a hop-by-hop header, and an
\* X-Forwarded-For header set by an earlier proxy.
ForwardedRequests ==
  { [Request("secret", BodyJSON) EXCEPT !.query = q, !.connection = c, !.xff = x] :
      q \in {<<>>, <<"v=1">>}, c \in {"", "keep-alive"},
      x \in {<<>>, <<"203.0.113.9">>} }

FnInputs ==
  [fn : {"body"}, arg : LineLists] \cup [fn : {"header"}, arg : HeaderSets]
    \cup [fn : {"request"}, arg : [target : TargetURLs, r : ForwardedRequests]]

serverVars == <<apiKey, fileOpen, logFile, pc, req, rBody, ctx, upstreamCalls,
                transportRet, entry, pending, logErr, rtRet, client, events,
                closeRet>>

InitFn ==
  /\ apiKey = ""
  /\ InitServer
  /\ fnIn \in FnInputs
  /\ fnOut = <<>>

\* RoundTrip's choice of the logged response payload, on a body.
ApplyResponsePayload ==
  /\ fnIn.fn = "body" /\ fnOut = <<>>
  /\ fnOut' = <<[fn |-> "ResponsePayload", val |-> ResponsePayload(Join(fnIn.arg))]>>
  /\ UNCHANGED <<serverVars, fnIn>>

\* processStreamingResponse on a body.
ApplyStreaming ==
  /\ fnIn.fn = "body" /\ fnOut = <<>>
  /\ fnOut' = <<[fn |-> "processStreamingResponse",
                 val |-> processStreamingResponse(Join(fnIn.arg))]>>
  /\ UNCHANGED <<serverVars, fnIn>>

\* RoundTrip's extraction of the correlation id, on response headers.
ApplyCorrelationID ==
  /\ fnIn.fn = "header" /\ fnOut = <<>>
  /\ fnOut' = <<[fn |-> "CorrelationID", val |-> CorrelationID(fnIn.arg)]>>
  /\ UNCHANGED <<serverVars, fnIn>>

\* The forwarding engine's rewrite, on an inbound request.
ApplyOutboundRequest ==
  /\ fnIn.fn = "request" /\ fnOut = <<>>
  /\ fnOut' = <<[fn |-> "OutboundRequest",
                 val |-> OutboundRequest(fnIn.arg.target, fnIn.arg.r, fnIn.arg.r.body)]>>
  /\ UNCHANGED <<serverVars, fnIn>>

NextFn ==
  \/ ApplyResponsePayload
  \/ ApplyStreaming
  \/ ApplyCorrelationID
  \/ ApplyOutboundRequest

SpecFn == InitFn /\ [][NextFn]_vars

\* ------------------------------------------------------------- vocabulary

Arrived(id) == req[id] # <<>>
Done(id) == pc[id] = "done"

\* The underlying transport returned a response / an error for the request.
UpstreamResponded(id) == transportRet[id] # <<>> /\ transportRet[id][1].err = ""
UpstreamFailed(id) == transportRet[id] # <<>> /\ transportRet[id][1].err # ""
UpstreamResp(id) == transportRet[id][1].resp[1]

InboundReadFailed(id) == events[id] = <<"readError">>

\* Position of the first occurrence of event e of a request, 0 if none.
Pos(id, e) ==
  IF \E k \in 1..Len(events[id]) : events[id][k] = e
    THEN CHOOSE k \in 1..Len(events[id]) :
           /\ events[id][k] = e
           /\ \A j \in 1..(k-1) : events[id][j] # e
    ELSE 0

\* The bytes of the log written for a request.
LogOf(id) == SelectSeq(logFile, LAMBDA b : b.w = id)

\* ------------------------------------------------------------------ claims

\* C1: with a non-empty API key configured, a request whose X-API-Key header
\* is missing ("") or differs from the key gets 401, and for it there is no
\* upstream call, no call context and no interaction record.
C1_Unauthorized401 ==
  apiKey # "" =>
    \A id \in Ids :
      (Arrived(id) /\ req[id][1].key # apiKey) =>
        /\ client[id] = <<HTTPError(401, "Unauthorized")>>
        /\ upstreamCalls[id] = <<>>
        /\ ctx[id] = <<>>
        /\ entry[id] = <<>>
        /\ LogOf(id) = <<>>
        /\ Done(id)

C1_Witness ==
  /\ apiKey = "secret"
  /\ \E i, j \in Ids :
       /\ Arrived(i) /\ req[i][1].key = "" /\ Done(i)
       /\ Arrived(j) /\ req[j][1].key = "wrong" /\ Done(j)

\* C2 as stated: with no API key configured every inbound request is
\* forwarded to the upstream, whatever its headers.
C2_EveryRequestForwarded ==
  apiKey = "" => \A id \in Ids : Done(id) => Len(upstreamCalls[id]) = 1

\* C2 amended: with no API key configured no request is answered 401,
\* whatever its X-API-Key header, and every request whose body was read
\* without error is handed to the forwarding engine and sent upstream.
C2_ForwardedUnlessReadFails ==
  apiKey = "" =>
    \A id \in Ids :
      Arrived(id) =>
        /\ \A k \in 1..Len(client[id]) : client[id][k].status # 401
        /\ ~InboundReadFailed(id) =>
             /\ ctx[id] # <<>>
             /\ pc[id] = "proxy" \/ Len(upstreamCalls[id]) = 1

C2_Witness ==
  /\ apiKey = ""
  /\ \E i, j \in Ids :
       /\ Arrived(i) /\ req[i][1].key = "wrong" /\ Len(upstreamCalls[i]) = 1
       /\ Arrived(j) /\ req[j][1].key = "" /\ Len(upstreamCalls[j]) = 1

\* C3 as stated: a finished request has exactly one interaction record if
\* the upstream call returned a response and none otherwise; never more than
\* one.
C3_OneRecordIffResponse ==
  \A id \in Ids :
    /\ Len(entry[id]) <= 1
    /\ Done(id) => (Len(entry[id]) = 1 <=> UpstreamResponded(id))

\* C4 as stated: whenever the upstream call returned a response, the client
\* receives exactly that status, those headers and those body bytes.
C4_ClientGetsUpstreamResponse ==
  \A id \in Ids :
    (Done(id) /\ UpstreamResponded(id)) => client[id] = <<UpstreamResp(id)>>

\* C5: for a request that passed authentication and whose body was read, the
\* forwarded body stream holds the client's bytes unconsumed, and the bytes
\* the upstream receives equal the bytes the client sent, JSON or not.
C5_RequestBodyPreserved ==
  \A id \in Ids :
    /\ pc[id] = "proxy" => rBody[id] = req[id][1].body
    /\ (ctx[id] # <<>> /\ pc[id] # "proxy") =>
         /\ Len(upstreamCalls[id]) = 1
         /\ upstreamCalls[id][1].body = req[id][1].body

C5_Witness ==
  \E i, j \in Ids :
    /\ Len(upstreamCalls[i]) = 1 /\ upstreamCalls[i][1].body = BodyText
    /\ Len(upstreamCalls[j]) = 1 /\ upstreamCalls[j][1].body = BodyJSON

\* C6: when LogRequest fails (file closed or write error) RoundTrip still
\* returns the upstream response with a nil error, and the client receives
\* the upstream's status, headers and body.
C6_LogFailureNotPropagated ==
  \A id \in Ids :
    logErr[id] = "err" =>
      /\ rtRet[id] = <<[resp |-> <<UpstreamResp(id)>>, err |-> ""]>>
      /\ Done(id) => client[id] = <<UpstreamResp(id)>>

C6_Witness ==
  \E i, j \in Ids :
    /\ i # j
    /\ logErr[i] = "err" /\ Done(i) /\ LogOf(i) = <<>>
    /\ logErr[j] = "ok" /\ Done(j)

\* C7: within one request the body capture precedes the upstream call, the
\* read of the response body precedes the end of LogRequest, and the end of
\* LogRequest precedes the release of the response to the client.
C7_EventOrder ==
  \A id \in Ids :
    /\ Pos(id, "upstreamCall") > 0 =>
         /\ 0 < Pos(id, "bodyCaptured")
         /\ Pos(id, "bodyCaptured") < Pos(id, "upstreamCall")
         /\ ctx[id] # <<>>
    /\ Pos(id, "emit") > 0 =>
         /\ 0 < Pos(id, "respRead")
         /\ Pos(id, "respRead") < Pos(id, "emit")
    /\ Pos(id, "release") > 0 =>
         /\ 0 < Pos(id, "emit")
         /\ Pos(id, "emit") < Pos(id, "release")
         /\ logErr[id] # "none"
    /\ (client[id] # <<>> /\ client[id][1].status \notin {401, 500, 502}) =>
         Pos(id, "release") > 0

C7_Witness ==
  \E id \in Ids :
    events[id] = <<"bodyCaptured", "contextRead", "upstreamCall", "respRead", "emit",
                   "release">>

C9_TransportErrorPropagated ==
  \A id \in Ids :
    UpstreamFailed(id) =>
      /\ rtRet[id] = <<[resp |-> <<>>, err |-> transportRet[id][1].err]>>
      /\ entry[id] = <<>>
      /\ LogOf(id) = <<>>
      /\ logErr[id] = "none"
      /\ \A k \in 1..Len(client[id]) : client[id][k].status = 502
      /\ Done(id) => Len(client[id]) = 1

C9_Witness ==
  \E id \in Ids : UpstreamFailed(id) /\ Done(id) /\ client[id][1].status = 502

\* C10 as stated: once the upstream call returned a response, no later error
\* (body read, close, parse, chunk parse, log) makes RoundTrip fail.
C10_NoFailureAfterResponse ==
  \A id \in Ids :
    (UpstreamResponded(id) /\ rtRet[id] # <<>>) => rtRet[id][1].err = ""

\* C11: when reading the inbound body fails the client gets 500 and the
\* request ends there: no call context, no upstream call, no record.
C11_ReadError500 ==
  \A id \in Ids :
    Pos(id, "readError") > 0 =>
      /\ client[id] = <<HTTPError(500, "Error reading request body")>>
      /\ Done(id)
      /\ ctx[id] = <<>>
      /\ upstreamCalls[id] = <<>>
      /\ transportRet[id] = <<>>
      /\ entry[id] = <<>>
      /\ LogOf(id) = <<>>

C11_Witness ==
  \E i, j \in Ids :
    /\ i # j
    /\ InboundReadFailed(i) /\ Done(i) /\ Authorized(apiKey, req[i][1].key)
    /\ Len(upstreamCalls[j]) = 1

\* a is a prefix of b
IsPrefix(a, b) == Len(a) <= Len(b) /\ SubSeq(b, 1, Len(a)) = a

\* C18: the log is append-only: whatever step is taken (a successful or a
\* failed LogRequest of any request, Close, a new logger on the same file),
\* the log before the step is a prefix of the log after it.
C18_AppendOnly == [][IsPrefix(logFile, logFile')]_vars

C18_Witness ==
  /\ Len(logFile) >= 4
  /\ logFile[1].w # logFile[3].w
  /\ \A id \in Ids : Done(id)
  /\ fileOpen

\* C19 as stated: Close on an already closed sink is a no-op: it meets no
\* error condition and changes nothing.
C19_CloseOnClosedNoOp ==
  [][(~fileOpen /\ ~fileOpen') => closeRet' = closeRet]_vars

\* The result of function f applied on its own, once it is there.
Applied(f) == fnOut # <<>> /\ fnOut[1].fn = f

\* C12 as stated: the logged response payload is the parsed value if the
\* body parses as JSON; else the reconstructed stream if some line begins
\* with "data: "; else (also when "data: " occurs inside a line) the raw text.
C12_PayloadThreeCases ==
  Applied("ResponsePayload") =>
    LET lines == fnIn.arg
        body == Join(lines)
    IN fnOut[1].val =
         IF JSONValid(body)
           THEN [kind |-> "json", role |-> "", val |-> StripSpace(body)]
         ELSE IF \E k \in 1..Len(lines) : HasDataPrefix(lines[k])
           THEN processStreamingResponse(body)
         ELSE [kind |-> "text", role |-> "", val |-> body]

\* C13: the correlation id is the value of the first of apim-request-id,
\* x-ms-request-id, x-ms-correlation-request-id that the response carries
\* (Header.Get gives "" for a header it does not carry), and it is empty
\* exactly when the response carries none of them.
C13_CorrelationPriority ==
  Applied("CorrelationID") =>
    LET h == fnIn.arg
        id == fnOut[1].val
    IN /\ h.apim # "" => id = h.apim
       /\ (h.apim = "" /\ h.xms # "") => id = h.xms
       /\ (h.apim = "" /\ h.xms = "" /\ h.xmscorr # "") => id = h.xmscorr
       /\ id = "" <=> (h.apim = "" /\ h.xms = "" /\ h.xmscorr = "")

C13_Witness ==
  /\ fnIn = [fn |-> "header", arg |-> [apim |-> "", xms |-> "m1", xmscorr |-> "c1"]]
  /\ fnOut = <<[fn |-> "CorrelationID", val |-> "m1"]>>

\* The lines the reconstruction has to skip: the sentinel, payloads that are
\* no JSON object, lines that do not begin with "data: ".
SkippedLines ==
  { <<"data: ", "[DONE]">>, <<"data: ", "text">>, <<"data: ", "[1]">>,
    <<"text">>, <<>>, <<"text", "data: ", "{delta:Hel}">>, <<"{obj}">> }

KeptLines(lines) == SelectSeq(lines, LAMBDA l : l \notin SkippedLines)

\* C14: a skipped line changes nothing: the reconstructed content of a body
\* is that of the body without its skipped lines, so valid chunks before and
\* after a skipped line all count; "Hel", "lo", [DONE] give "Hello".
C14_SkipsWithoutAbort ==
  Applied("processStreamingResponse") =>
    LET lines == fnIn.arg
        out == fnOut[1].val
    IN /\ out.val = processStreamingResponse(Join(KeptLines(lines))).val
       /\ KeptLines(lines) = <<>> => out.val = <<>>
       /\ KeptLines(lines) = <<<<"data: ", "{delta:Hel}">>, <<"data: ", "{delta:lo}">>>>
            => out.val = <<"Hel", "lo">>

C14_Witness ==
  /\ fnIn = [fn |-> "body",
             arg |-> <<<<"data: ", "{delta:Hel}">>, <<"data: ", "text">>,
                       <<"data: ", "{delta:lo}">>>>]
  /\ Applied("processStreamingResponse")
  /\ fnOut[1].val.val = <<"Hel", "lo">>

\* What each line has to add to the content: of the first choice only, the
\* delta content and then the message content, each only if it is a string.
ExpectedAdds(line) ==
  CASE line = <<"data: ", "{delta:Hel}">> -> <<"Hel">>
    [] line = <<"data: ", "{delta:lo}">> -> <<"lo">>
    [] line = <<"data: ", "{message:!}">> -> <<"!">>
    [] line = <<"data: ", "{delta:a,message:b}">> -> <<"a", "b">>
    [] line = <<"data: ", "{delta:7,message:b}">> -> <<"b">>
    [] line = <<"data: ", "{c1:x,c2:y}">> -> <<"x">>
    [] line = <<"data: ", "{id:1,delta:ok,finish:stop}">> -> <<"ok">>
    [] OTHER -> <<>>

RECURSIVE ExpectedContent(_)
ExpectedContent(lines) ==
  IF lines = <<>> THEN <<>>
  ELSE ExpectedAdds(Head(lines)) \o ExpectedContent(Tail(lines))

\* C15: the reconstructed content is the concatenation, in line order, of
\* what the first choice of each parsed chunk holds: delta.content, then
\* message.content; no choices, or a content that is no string, add nothing.
C15_ContentInLineOrder ==
  Applied("processStreamingResponse") =>
    fnOut[1].val.val = ExpectedContent(fnIn.arg)

C15_Witness ==
  /\ fnIn = [fn |-> "body",
             arg |-> <<<<"data: ", "{c1:x,c2:y}">>, <<"data: ", "{delta:a,message:b}">>,
                       <<"data: ", "{delta:7,message:b}">>>>]
  /\ Applied("processStreamingResponse")
  /\ fnOut[1].val.val = <<"x", "a", "b", "b">>

\* C16: the request payload in the call context and in the record is the
\* parsed value for a JSON body and the raw text for any other body, the
\* empty one included; a body that is no JSON is forwarded once with the
\* client's bytes, and the client gets the upstream's response when it was
\* read and 502 otherwise, never a status caused by the parse failure.
C16_ParseFallback ==
  \A id \in Ids :
    Arrived(id) =>
      LET b == req[id][1].body
          expected == IF b = BodyJSON
                        THEN [kind |-> "json", role |-> "", val |-> BodyJSON]
                        ELSE [kind |-> "text", role |-> "", val |-> b]
      IN /\ ctx[id] # <<>> => ctx[id][1].requestBody = expected
         /\ entry[id] # <<>> => entry[id][1].RequestBody = expected
         /\ (b # BodyJSON /\ Pos(id, "bodyCaptured") > 0) =>
              /\ ctx[id] # <<>>
              /\ pc[id] # "proxy" =>
                   /\ Len(upstreamCalls[id]) = 1
                   /\ upstreamCalls[id][1].body = b
              /\ Done(id) =>
                   client[id] = IF Pos(id, "respRead") > 0
                                  THEN <<UpstreamResp(id)>>
                                  ELSE <<[status |-> 502, header |-> NoHeaders,
                                          body |-> <<>>]>>

C16_Witness ==
  \E i, j \in Ids :
    /\ req[i] = <<Request("", <<>>)>> /\ Done(i) /\ LogOf(i) # <<>>
    /\ entry[i][1].RequestBody = [kind |-> "text", role |-> "", val |-> <<>>]
    /\ client[i] = <<UpstreamResp(i)>>
    /\ Arrived(j) /\ req[j][1].body = BodyText /\ Done(j) /\ LogOf(j) # <<>>
    /\ entry[j][1].RequestBody = [kind |-> "text", role |-> "", val |-> BodyText]
    /\ client[j] = <<UpstreamResp(j)>>

C20_MissingFieldFailsRequest ==
  \A id \in Ids :
    (ctx[id] # <<>> /\ DOMAIN ctx[id][1] # ContextKeys) =>
      /\ upstreamCalls[id] = <<>>
      /\ entry[id] = <<>>
      /\ LogOf(id) = <<>>
      /\ pc[id] \in {"proxy", "done"}
      /\ client[id] = <<>>

\* C22: a request causes at most one call of the underlying transport: once
\* the call is made no step makes another, whether it ended in a transport
\* error, an error status or a failed read of the response body.
C22_AtMostOneUpstreamCall ==
  \A id \in Ids :
    /\ Len(upstreamCalls[id]) <= 1
    /\ Pos(id, "upstreamCall") > 0 =>
         \A k \in 1..Len(events[id]) :
           events[id][k] = "upstreamCall" => k = Pos(id, "upstreamCall")
    /\ (UpstreamFailed(id) \/ Pos(id, "respReadError") > 0) =>
         (Len(upstreamCalls[id]) = 1 /\ pc[id] \in {"return", "done"})

C22_Witness ==
  \E i, j \in Ids :
    /\ Done(i) /\ UpstreamFailed(i) /\ Len(upstreamCalls[i]) = 1
    /\ Done(j) /\ UpstreamResponded(j) /\ UpstreamResp(j).status = 500
    /\ Pos(j, "respReadError") > 0 /\ Len(upstreamCalls[j]) = 1

\* C23: the reconstructed payload is a map with the one key "choices",
\* holding one choice with the one key "message", holding a role
\* "assistant" and a content that is the accumulated buffer (empty when no
\* chunk added content); chunk ids, usage and finish reasons are not in it.
C23_SingleChoiceCompletion ==
  Applied("processStreamingResponse") =>
    LET obj == fnOut[1].val.object
    IN /\ DOMAIN obj = {"choices"}
       /\ Len(obj.choices) = 1
       /\ DOMAIN obj.choices[1] = {"message"}
       /\ DOMAIN obj.choices[1].message = {"role", "content"}
       /\ obj.choices[1].message.role = "assistant"
       /\ obj.choices[1].message.content = ExpectedContent(fnIn.arg)
       /\ (\A k \in 1..Len(fnIn.arg) : ExpectedAdds(fnIn.arg[k]) = <<>>) =>
            obj.choices[1].message.content = <<>>

C23_Witness ==
  /\ fnIn = [fn |-> "body",
             arg |-> <<<<"data: ", "{id:1,delta:ok,finish:stop}">>,
                       <<"data: ", "{c1:x,c2:y}">>, <<"data: ", "[DONE]">>>>]
  /\ Applied("processStreamingResponse")
  /\ fnOut[1].val.object =
       [choices |-> <<[message |-> [role |-> "assistant", content |-> <<"ok", "x">>]]>>]

\* The payload a record has to hold for a response body of the upstream.
ExpectedResponse(body) ==
  CASE body = BodyJSON -> [kind |-> "json", role |-> "", val |-> BodyJSON]
    [] body = BodyStream ->
         [kind |-> "stream", role |-> "assistant", val |-> <<"Hel", "lo">>,
          object |-> [choices |-> <<[message |-> [role |-> "assistant",
                                                   content |-> <<"Hel", "lo">>]]>>]]
    [] OTHER -> [kind |-> "text", role |-> "", val |-> body]

\* The payload a record has to hold for an inbound request body.
ExpectedRequest(body) ==
  IF body = BodyJSON THEN [kind |-> "json", role |-> "", val |-> BodyJSON]
  ELSE [kind |-> "text", role |-> "", val |-> body]

\* The record of the exchange of request id: its own inbound payload, path
\* and method, its own upstream response's payload and correlation id.
ExpectedEntry(id) ==
  LET r == req[id][1]
      u == UpstreamResp(id)
  IN [RequestBody |-> ExpectedRequest(r.body),
      Response |-> ExpectedResponse(u.body),
      Path |-> r.path, Method |-> r.method,
      CorrelationID |-> IF u.header.apim # "" THEN u.header.apim
                        ELSE IF u.header.xms # "" THEN u.header.xms
                        ELSE u.header.xmscorr]

\* C25: whatever the interleaving, the record built for a request and every
\* byte of it in the log is the record of that request's own exchange; the
\* call context holds the inbound path and method.
C25_RecordOfOneExchange ==
  \A id \in Ids :
    /\ ctx[id] # <<>> =>
         (ctx[id][1].path = req[id][1].path /\ ctx[id][1].method = req[id][1].method)
    /\ entry[id] # <<>> =>
         (UpstreamResponded(id) /\ entry[id] = <<ExpectedEntry(id)>>)
    /\ \A k \in 1..Len(logFile) :
         logFile[k].w = id => (entry[id] # <<>> /\ logFile[k].e = ExpectedEntry(id))

C25_Witness ==
  \E i, j \in Ids :
    /\ pc[i] = "write" /\ pc[j] = "return"
    /\ UpstreamResponded(i) /\ UpstreamResponded(j)
    /\ LogOf(j) = Encode(j, ExpectedEntry(j))
    /\ entry[i] = <<ExpectedEntry(i)>>
    /\ req[i][1].path # req[j][1].path /\ req[i][1].method # req[j][1].method
    /\ UpstreamResp(i) # UpstreamResp(j)
    /\ ExpectedEntry(i).CorrelationID # ExpectedEntry(j).CorrelationID

\* How often event e is in the history of a request.
Count(id, e) == Cardinality({k \in 1..Len(events[id]) : events[id][k] = e})

RequestState(id) ==
  <<pc[id], req[id], rBody[id], ctx[id], upstreamCalls[id], transportRet[id],
    entry[id], pending[id], logErr[id], rtRet[id], client[id], events[id]>>

C24_DisconnectDoesNotAbort ==
  \A id \in Ids :
    Pos(id, "clientGone") > 0 =>
      /\ UpstreamFailed(id) => transportRet[id][1].err # "context canceled"
      /\ (UpstreamResponded(id) /\ Pos(id, "respRead") > 0) => entry[id] # <<>>

====
